---- MODULE Spec2Model ----
(***************************************************************************)
(* The file-conversion pipeline of svg-to-ts                                *)
(* (src/lib/converters/files.converter.ts): convertToFiles and the stage    *)
(* functions it drives, modelled as a state machine over a small file       *)
(* system.  One invocation is a sequential async function; every awaited    *)
(* collaborator call is one suspension point that later settles (resolves   *)
(* or rejects).  The per-icon stage fans out one task per SvgDefinition and *)
(* joins them with Promise.all.                                             *)
(***************************************************************************)
EXTENDS Integers, Sequences, FiniteSets, TLC

\* Largest number of SVG source files the ingestion may discover.
MaxIcons == 2

\* Largest number of SVG source files when two invocations run interleaved.
MaxSharedIcons == 1

\* The invocations of convertToFiles the model can run.
Invs == {1, 2}

VARIABLES
    opts,                 \* [i] conversionOptions of invocation i
    srcFiles,             \* number of SVG source files readable by filesProcessor
    pc,                   \* [i] the await the invocation is suspended at
    svgDefinitions,       \* [i] const svgDefinitions (line 43)
    task,                 \* [i] state of each callback of svgDefinitions.map
    generatedFileNames,   \* [i] generatedFileNames (lines 48, 123, 141)
    indexFileContent,     \* [i] let indexFileContent (line 80)
    completeIconSetContent, \* [i] const completeIconSetContent (line 167)
    modelFile,            \* [i] const modelFile (lines 96, 187)
    generatedTypeScriptFilePaths, \* [i] result of getFilePathsFromRegex (line 208)
    fs,                   \* the file system: path -> content of the file there
    folders,              \* compiler output folders that exist (esm, umd, build)
    compiled,             \* compiler emits: [outDir, module, sources]
    trace,                \* [i] collaborator calls and their outcomes, in order
    writes,               \* [i] completed writeFile calls, in completion order
    failedAt              \* [i] the call whose failure rejected the invocation

vars == << opts, srcFiles, pc, svgDefinitions, task, generatedFileNames,
           indexFileContent, completeIconSetContent, modelFile, generatedTypeScriptFilePaths, fs,
           folders, compiled, trace, writes, failedAt >>

----------------------------------------------------------------------------
\* Values

\* An option that was not provided, as a template literal renders it.
Undefined == "undefined"

\* JavaScript truthiness of an optional string option.
Truthy(x) == x # Undefined

NoContent == [kind |-> "none"]

\* Folder `${outputDirectory}/${iconsFolderName}` (lines 40, 129, 149, 175, 188).
IconsFolder(o) == << o.outputDirectory, o.iconsFolderName >>

\* Folder `${outputDirectory}` (line 91).
RootFolder(o) == << o.outputDirectory >>

\* Folder `${additionalModelOutputPath}` (lines 103, 194).
AdditionalFolder(o) == << o.additionalModelOutputPath >>

\* Folder `${outputDirectory}/esm`, `/umd`, `/build` (lines 222, 223, 225).
SubFolder(o, sub) == << o.outputDirectory, sub >>

\* FILE_TYPE to the extension writeFile appends.
Extension(fileType) == IF fileType = "TSX" THEN "tsx" ELSE "ts"

FilePath(dir, name, fileType) ==
    [dir |-> dir, name |-> name, ext |-> Extension(fileType)]

\* The base names and variable names of the SVG sources, by position.
BaseNames == << "home", "back", "menu", "user" >>
VariableNames == << <<"h", "o">>, <<"B", "a">>, <<>>, <<"_", "m">> >>

Wrap(k) == ((k - 1) % 4) + 1

\* String.prototype.toUpperCase on one character.
ToUpperCase(c) ==
    CASE c = "h" -> "H"
      [] c = "o" -> "O"
      [] c = "a" -> "A"
      [] c = "m" -> "M"
      [] OTHER -> c

\* Faulty variant of Capitalize: the whole variable name is upper-cased.
CapitalizeAll(v) == [k \in 1..Len(v) |-> ToUpperCase(v[k])]

\* variableName.charAt(0).toUpperCase() + variableName.slice(1) (line 145).
Capitalize(v) ==
    IF v = <<>> THEN <<>> ELSE << ToUpperCase(Head(v)) >> \o Tail(v)

\* The SvgDefinition filesProcessor builds for the k-th source file.
SvgDefinitionOf(k) ==
    [ variableName |-> VariableNames[Wrap(k)],
      typeName |-> BaseNames[Wrap(k)],
      filenameWithoutEnding |-> << BaseNames[Wrap(k)], (k - 1) \div 4 >>,
      prefix |-> "nav",
      data |-> k ]

\* filesProcessor(conversionOptions): one SvgDefinition per source file.
FilesProcessor(n) == [k \in 1..n |-> SvgDefinitionOf(k)]

----------------------------------------------------------------------------
\* Pure generators (code-snippet collaborators): the text they return is
\* represented by the arguments it is computed from.

\* Faulty variant of GeneratedFileName: the file name leaves out the icon's own name.
GeneratedFileNameNoBase(svgDefinition) ==
    << svgDefinition.prefix, "-", <<>>, ".icon" >>

\* `${svgDefinition.prefix}-${svgDefinition.filenameWithoutEnding}.icon`
GeneratedFileName(svgDefinition) ==
    << svgDefinition.prefix, "-", svgDefinition.filenameWithoutEnding, ".icon" >>

\* File name given by an option string.
OptionName(s) == << s >>

GenerateSvgConstant(variableName, typeName, data) ==
    [kind |-> "svgConstant", variableName |-> variableName,
     typeName |-> typeName, data |-> data]

GenerateTSXConstant(variableName, data) ==
    [kind |-> "tsxConstant", variableName |-> variableName, data |-> data]

GenerateCompleteIconSetContent(defs, o) ==
    [kind |-> "completeIconSet", definitions |-> defs,
     name |-> o.completeIconSetName, model |-> o.modelFileName, tsx |-> o.tsx]

\* Faulty variant of IndexFileContent: the export of the model file comes
\* first.
IndexFileContentModelFirst(o, names) ==
    [kind |-> "barrel",
     typeHelper |-> OptionName(o.modelFileName),
     exports |-> << OptionName(o.modelFileName) >> \o names]

\* Faulty variant of IndexFileContent: the export of the model file is left out.
IndexFileContentNoModelExport(o, names) ==
    [kind |-> "barrel", typeHelper |-> OptionName(o.modelFileName), exports |-> names]

\* generateTypeHelperWithImport ++ one export per generated file name ++ the
\* export of the model file.
IndexFileContent(o, names) ==
    [kind |-> "barrel",
     typeHelper |-> OptionName(o.modelFileName),
     exports |-> names \o << OptionName(o.modelFileName) >>]

\* `${typeDefinition}${interfaceDefinition}${enumDefinition}`
ModelFileContent(o, defs) ==
    [kind |-> "model", definitions |-> defs, name |-> o.modelFileName]

----------------------------------------------------------------------------
\* Collaborators: file system, glob and compiler.

\* writeFile(dir, name, content, fileType) once it has resolved.
WriteFile(files, dir, name, content, fileType) ==
    (FilePath(dir, name, fileType) :> content) @@ files

Restrict(files, keep) == [p \in keep |-> files[p]]

\* deleteFolder(dir) once it has resolved.
DeleteFolder(files, dir) ==
    Restrict(files, {p \in DOMAIN files : p.dir # dir})

\* deleteFiles(paths) once it has returned.
DeleteFiles(files, paths) == Restrict(files, DOMAIN files \ paths)

BarrelPath(o) == FilePath(RootFolder(o), OptionName(o.barrelFileName), "TS")

\* Faulty variant of GetFilePathsFromRegex: the pattern matches every file of
\* the icons folder.
GetFilePathsFromRegexAnyFile(files, o) ==
    {p \in DOMAIN files : p.dir = IconsFolder(o) \/ p = BarrelPath(o)}

\* getFilePathsFromRegex([`${icons}/*.ts`, `${outputDirectory}/${barrel}.ts`])
GetFilePathsFromRegex(files, o) ==
    {p \in DOMAIN files :
        \/ p.dir = IconsFolder(o) /\ p.ext = "ts"
        \/ p = BarrelPath(o)}

\* What one compiler call emits.
Emit(paths, outDir, module) ==
    [outDir |-> outDir, module |-> module, sources |-> paths]

----------------------------------------------------------------------------
\* Options and initial states

CompilationOutputs == {"ESM", "UMD", "ESM_AND_UMD", "CJS"}

OptionsOf(dir, tsx, cis, model, extra, compile, output) ==
    [ outputDirectory |-> dir,
      iconsFolderName |-> "icons",
      barrelFileName |-> "index",
      modelFileName |-> model,
      additionalModelOutputPath |-> extra,
      exportCompleteIconSet |-> cis,
      completeIconSetName |-> "complete-icon-set",
      compileSources |-> compile,
      compilationOutput |-> output,
      tsx |-> tsx ]

Options(dir) ==
    { OptionsOf(dir, tsx, cis, model, extra, compile, output) :
        tsx \in BOOLEAN, cis \in BOOLEAN,
        model \in {Undefined, "my-icons.model"},
        extra \in {Undefined, "extra"},
        compile \in BOOLEAN, output \in CompilationOutputs }

\* A file left behind by an earlier run.
Stale == [kind |-> "stale"]

EmptyFiles == [p \in {} |-> NoContent]

\* The disk before the invocation: empty, or holding an earlier run's output.
InitialFiles(o) ==
    { EmptyFiles,
      WriteFile(WriteFile(WriteFile(EmptyFiles,
          IconsFolder(o), OptionName("old"), Stale, "TS"),
          RootFolder(o), OptionName(o.barrelFileName), Stale, "TS"),
          << "extra" >>, OptionName("my-icons.model"), Stale, "TS") }

Quiescent ==
    /\ svgDefinitions = [i \in Invs |-> <<>>]
    /\ task = [i \in Invs |-> <<>>]
    /\ generatedFileNames = [i \in Invs |-> <<>>]
    /\ indexFileContent = [i \in Invs |-> NoContent]
    /\ completeIconSetContent = [i \in Invs |-> NoContent]
    /\ modelFile = [i \in Invs |-> NoContent]
    /\ generatedTypeScriptFilePaths = [i \in Invs |-> {}]
    /\ compiled = {}
    /\ trace = [i \in Invs |-> <<>>]
    /\ writes = [i \in Invs |-> <<>>]
    /\ failedAt = [i \in Invs |-> ""]

\* One invocation; the second one is never started.
Init ==
    /\ \E o \in {x \in Options("out") : x.compileSources \/ x.compilationOutput = "ESM"} :
          /\ opts = [i \in Invs |-> o]
          /\ fs \in InitialFiles(o)
    /\ srcFiles \in 0..MaxIcons
    /\ folders \in {{}, {<< "out", "build" >>}}
    /\ pc = [i \in Invs |-> IF i = 1 THEN "idle" ELSE "off"]
    /\ Quiescent

----------------------------------------------------------------------------
\* Control flow of convertToFiles: what runs when an awaited call settles.

Set(f, i, v) == [f EXCEPT ![i] = v]

\* Faulty variant of Reject: the failure is caught and the run reported as a success.
RejectSwallowed(i, tr, op) ==
    /\ pc' = Set(pc, i, "done")
    /\ failedAt' = Set(failedAt, i, op)
    /\ trace' = Set(trace, i, tr \o << << op, "fail" >>, << "generationSuccess", "ok" >> >>)

\* A rejected await propagates out of convertToFiles (nothing catches it).
Reject(i, tr, op) ==
    /\ pc' = Set(pc, i, "rejected")
    /\ failedAt' = Set(failedAt, i, op)
    /\ trace' = Set(trace, i, Append(tr, << op, "fail" >>))

\* Faulty variant of FilesAfterFailure: a failed write is followed by a
\* clean-up of the icons folder.
FilesAfterFailureCleanedUp(i) == DeleteFolder(fs, IconsFolder(opts[i]))

\* The disk after a writeFile call has rejected: no catch or finally of lines
\* 24-200 removes or rewrites anything.
FilesAfterFailure(i) == fs

\* Line 115: Logger.generationSuccess(outputDirectory).
Succeed(i, tr) ==
    /\ pc' = Set(pc, i, "done")
    /\ trace' = Set(trace, i, Append(tr, << "generationSuccess", "ok" >>))

\* Lines 109-115: the optional compile stage, then the success log.
AfterModelFile(i, tr) ==
    IF opts[i].compileSources
    THEN /\ pc' = Set(pc, i, "getFilePathsFromRegex")
         /\ trace' = Set(trace, i, Append(tr, << "getFilePathsFromRegex", "call" >>))
    ELSE Succeed(i, tr)

\* Lines 95-99 and 184-188: generateModelFile builds the model text and
\* issues its write into the icons folder.
AfterBarrel(i, tr) ==
    IF Truthy(opts[i].modelFileName)
    THEN /\ modelFile' = Set(modelFile, i, ModelFileContent(opts[i], svgDefinitions[i]))
         /\ pc' = Set(pc, i, "writeModelFile")
         /\ trace' = Set(trace, i, Append(tr, << "writeModelFile", "call" >>))
    ELSE /\ AfterModelFile(i, tr)
         /\ UNCHANGED modelFile

\* Lines 80-93: the barrel text is assembled from generatedFileNames and its
\* write is issued.
AssembleBarrel(i, names, tr) ==
    /\ indexFileContent' = Set(indexFileContent, i, IndexFileContent(opts[i], names))
    /\ pc' = Set(pc, i, "writeBarrel")
    /\ trace' = Set(trace, i, Append(tr, << "writeBarrel", "call" >>))

\* Lines 62-78 (and 167-175): the optional complete icon set, else the barrel.
AfterGenerate(i, tr) ==
    IF opts[i].exportCompleteIconSet
    THEN /\ completeIconSetContent' = Set(completeIconSetContent, i,
                GenerateCompleteIconSetContent(svgDefinitions[i], opts[i]))
         /\ pc' = Set(pc, i, "writeCompleteIconSet")
         /\ trace' = Set(trace, i, Append(tr, << "writeCompleteIconSet", "call" >>))
         /\ UNCHANGED indexFileContent
    ELSE /\ AssembleBarrel(i, generatedFileNames[i], tr)
         /\ UNCHANGED completeIconSetContent

Calls(op, n) == [k \in 1..n |-> << op, "call" >>]

----------------------------------------------------------------------------
\* Actions

\* Lines 24-42: the call of convertToFiles runs up to its first await.
ConvertToFiles(i) ==
    /\ pc[i] = "idle"
    /\ pc' = Set(pc, i, "deleteFolder")
    /\ trace' = Set(trace, i, << << "deleteFolder", "call" >> >>)
    /\ UNCHANGED << opts, srcFiles, svgDefinitions, task, generatedFileNames,
                    indexFileContent, completeIconSetContent, modelFile,
                    generatedTypeScriptFilePaths, fs, folders, compiled,
                    writes, failedAt >>

\* Lines 39-46: deleteFolder settles; on success filesProcessor is called.
DeleteFolderSettles(i, ok) ==
    /\ pc[i] = "deleteFolder"
    /\ IF ok
       THEN /\ fs' = DeleteFolder(fs, IconsFolder(opts[i]))
            /\ pc' = Set(pc, i, "filesProcessor")
            /\ trace' = Set(trace, i, trace[i] \o
                   << << "deleteFolder", "ok" >>, << "filesProcessor", "call" >> >>)
            /\ UNCHANGED failedAt
       ELSE /\ Reject(i, trace[i], "deleteFolder")
            /\ UNCHANGED fs
    /\ UNCHANGED << opts, srcFiles, svgDefinitions, task, generatedFileNames,
                    indexFileContent, completeIconSetContent, modelFile,
                    generatedTypeScriptFilePaths, folders, compiled, writes >>

\* Faulty variant of StartTSXFileConstants: the capitalized name is not
\* stored back into the SvgDefinition.
StartTSXFileConstantsNotInPlace(i, defs) ==
    /\ svgDefinitions' = Set(svgDefinitions, i, defs)
    /\ task' = Set(task, i, [k \in 1..Len(defs) |-> "generateTSXConstant"])
    /\ generatedFileNames' = Set(generatedFileNames, i, <<>>)
    /\ trace' = Set(trace, i, trace[i] \o << << "filesProcessor", "ok" >> >>
                                     \o Calls("generateTSXConstant", Len(defs)))

\* Lines 141-148 up to the first await of every map callback: each
\* variableName is capitalized in place and generateTSXConstant is called.
StartTSXFileConstants(i, defs) ==
    /\ svgDefinitions' = Set(svgDefinitions, i,
           [k \in 1..Len(defs) |->
               [defs[k] EXCEPT !.variableName = Capitalize(defs[k].variableName)]])
    /\ task' = Set(task, i, [k \in 1..Len(defs) |-> "generateTSXConstant"])
    /\ generatedFileNames' = Set(generatedFileNames, i, <<>>)
    /\ trace' = Set(trace, i, trace[i] \o << << "filesProcessor", "ok" >> >>
                                     \o Calls("generateTSXConstant", Len(defs)))

\* Faulty variant of StartSVGConstants: no file name is pushed before the
\* write is awaited.
StartSVGConstantsNoPush(i, defs) ==
    /\ svgDefinitions' = Set(svgDefinitions, i, defs)
    /\ task' = Set(task, i, [k \in 1..Len(defs) |-> "writeFile"])
    /\ generatedFileNames' = Set(generatedFileNames, i, <<>>)
    /\ trace' = Set(trace, i, trace[i] \o << << "filesProcessor", "ok" >> >>
                                     \o Calls("writeIcon", Len(defs)))

\* Lines 123-129 up to the first await of every map callback: the constant
\* is generated, the file name pushed and writeFile called, in input order.
StartSVGConstants(i, defs) ==
    /\ svgDefinitions' = Set(svgDefinitions, i, defs)
    /\ task' = Set(task, i, [k \in 1..Len(defs) |-> "writeFile"])
    /\ generatedFileNames' = Set(generatedFileNames, i,
           [k \in 1..Len(defs) |-> GeneratedFileName(defs[k])])
    /\ trace' = Set(trace, i, trace[i] \o << << "filesProcessor", "ok" >> >>
                                     \o Calls("writeIcon", Len(defs)))

\* Lines 43-60: filesProcessor settles; on success the per-icon stage starts.
FilesProcessorSettles(i, ok) ==
    /\ pc[i] = "filesProcessor"
    /\ IF ok
       THEN /\ IF opts[i].tsx
               THEN StartTSXFileConstants(i, FilesProcessor(srcFiles))
               ELSE StartSVGConstants(i, FilesProcessor(srcFiles))
            /\ pc' = Set(pc, i, "generate")
            /\ UNCHANGED failedAt
       ELSE /\ Reject(i, trace[i], "filesProcessor")
            /\ UNCHANGED << svgDefinitions, task, generatedFileNames >>
    /\ UNCHANGED << opts, srcFiles, indexFileContent, completeIconSetContent,
                    modelFile, generatedTypeScriptFilePaths, fs, folders,
                    compiled, writes >>

\* Faulty variant of TaskFails: the rejection of a map callback is lost.
TaskFailsSwallowed(i, k, op) ==
    /\ task' = Set(task, i, [task[i] EXCEPT ![k] = "failed"])
    /\ trace' = Set(trace, i, Append(trace[i], << op, "fail" >>))
    /\ UNCHANGED << pc, failedAt >>

\* A map callback rejects: Promise.all rejects at once, and with it the stage
\* and convertToFiles, unless an earlier callback already rejected it.
TaskFails(i, k, op) ==
    /\ task' = Set(task, i, [task[i] EXCEPT ![k] = "failed"])
    /\ IF pc[i] = "generate"
       THEN Reject(i, trace[i], op)
       ELSE /\ trace' = Set(trace, i, Append(trace[i], << op, "fail" >>))
            /\ UNCHANGED << pc, failedAt >>

\* Lines 146-149: generateTSXConstant settles for icon k; on success the file
\* name is pushed and writeFile is called.
GenerateTSXConstantSettles(i, k, ok) ==
    /\ k \in DOMAIN task[i]
    /\ task[i][k] = "generateTSXConstant"
    /\ IF ok
       THEN /\ generatedFileNames' = Set(generatedFileNames, i,
                   Append(generatedFileNames[i], GeneratedFileName(svgDefinitions[i][k])))
            /\ task' = Set(task, i, [task[i] EXCEPT ![k] = "writeFile"])
            /\ trace' = Set(trace, i, trace[i] \o
                   << << "generateTSXConstant", "ok" >>, << "writeIcon", "call" >> >>)
            /\ UNCHANGED << pc, failedAt >>
       ELSE /\ TaskFails(i, k, "generateTSXConstant")
            /\ UNCHANGED generatedFileNames
    /\ UNCHANGED << opts, srcFiles, svgDefinitions, indexFileContent,
                    completeIconSetContent, modelFile,
                    generatedTypeScriptFilePaths, fs, folders, compiled, writes >>

\* The constant written for icon k (lines 126 and 146).
IconConstant(o, def) ==
    IF o.tsx
    THEN GenerateTSXConstant(def.variableName, def.data)
    ELSE GenerateSvgConstant(def.variableName, def.typeName, def.data)

\* Faulty variant of IconFileType: FILE_TYPE.TSX is not passed to writeFile.
IconFileTypeAlwaysTS(o) == "TS"

\* The file type of the per-icon writes (lines 129 and 149).
IconFileType(o) == IF o.tsx THEN "TSX" ELSE "TS"

\* Lines 129-130 and 149-151: the writeFile of icon k settles.
WriteIconSettles(i, k, ok) ==
    /\ k \in DOMAIN task[i]
    /\ task[i][k] = "writeFile"
    /\ IF ok
       THEN /\ fs' = WriteFile(fs, IconsFolder(opts[i]),
                   GeneratedFileName(svgDefinitions[i][k]),
                   IconConstant(opts[i], svgDefinitions[i][k]), IconFileType(opts[i]))
            /\ writes' = Set(writes, i, Append(writes[i],
                   [path |-> FilePath(IconsFolder(opts[i]),
                                GeneratedFileName(svgDefinitions[i][k]), IconFileType(opts[i])),
                    content |-> IconConstant(opts[i], svgDefinitions[i][k])]))
            /\ task' = Set(task, i, [task[i] EXCEPT ![k] = "done"])
            /\ trace' = Set(trace, i, Append(trace[i], << "writeIcon", "ok" >>))
            /\ UNCHANGED << pc, failedAt >>
       ELSE /\ TaskFails(i, k, "writeIcon")
            /\ fs' = FilesAfterFailure(i)
            /\ UNCHANGED writes
    /\ UNCHANGED << opts, srcFiles, svgDefinitions, generatedFileNames,
                    indexFileContent, completeIconSetContent, modelFile,
                    generatedTypeScriptFilePaths, folders, compiled >>

\* Faulty variant of AllSettled: a callback returns once its writeFile has
\* been called, without awaiting it.
AllWritesIssued(i) == \A k \in DOMAIN task[i] : task[i][k] \in {"writeFile", "done"}

\* Faulty variant of AllSettled: the per-icon promises are not awaited.
AllSettledNoAwait(i) == TRUE

\* Faulty variant of AllSettled: the join resolves with the first callback to return.
AnySettled(i) == DOMAIN task[i] = {} \/ \E k \in DOMAIN task[i] : task[i][k] = "done"

\* Promise.all resolves once every map callback has returned (lines 124, 142).
AllSettled(i) == \A k \in DOMAIN task[i] : task[i][k] = "done"

\* Lines 132-133 / 153-154 and 60-93: the per-icon stage resolves and
\* convertToFiles goes on to the complete icon set or the barrel.
PromiseAllResolves(i) ==
    /\ pc[i] = "generate"
    /\ AllSettled(i)
    /\ AfterGenerate(i, Append(trace[i], << "generate", "ok" >>))
    /\ UNCHANGED << opts, srcFiles, svgDefinitions, task, generatedFileNames,
                    modelFile, generatedTypeScriptFilePaths, fs, folders,
                    compiled, writes, failedAt >>

\* A writeFile call of convertToFiles' own chain resolves.
Wrote(i, dir, name, content) ==
    /\ fs' = WriteFile(fs, dir, name, content, "TS")
    /\ writes' = Set(writes, i, Append(writes[i],
           [path |-> FilePath(dir, name, "TS"), content |-> content]))

\* Lines 175 and 77-93: the complete icon set is written, its name pushed and
\* the barrel assembled.
WriteCompleteIconSetSettles(i, ok) ==
    /\ pc[i] = "writeCompleteIconSet"
    /\ IF ok
       THEN /\ Wrote(i, IconsFolder(opts[i]), OptionName(opts[i].completeIconSetName),
                     completeIconSetContent[i])
            /\ generatedFileNames' = Set(generatedFileNames, i,
                   Append(generatedFileNames[i], OptionName(opts[i].completeIconSetName)))
            /\ AssembleBarrel(i,
                   Append(generatedFileNames[i], OptionName(opts[i].completeIconSetName)),
                   Append(trace[i], << "writeCompleteIconSet", "ok" >>))
            /\ UNCHANGED failedAt
       ELSE /\ Reject(i, trace[i], "writeCompleteIconSet")
            /\ fs' = FilesAfterFailure(i)
            /\ UNCHANGED << writes, generatedFileNames, indexFileContent >>
    /\ UNCHANGED << opts, srcFiles, svgDefinitions, task, completeIconSetContent,
                    modelFile, generatedTypeScriptFilePaths, folders, compiled >>

\* Lines 90-99: the barrel file is written; the model file stage follows.
WriteBarrelSettles(i, ok) ==
    /\ pc[i] = "writeBarrel"
    /\ IF ok
       THEN /\ Wrote(i, RootFolder(opts[i]), OptionName(opts[i].barrelFileName),
                     indexFileContent[i])
            /\ AfterBarrel(i, Append(trace[i], << "writeBarrel", "ok" >>))
            /\ UNCHANGED failedAt
       ELSE /\ Reject(i, trace[i], "writeBarrel")
            /\ fs' = FilesAfterFailure(i)
            /\ UNCHANGED << writes, modelFile >>
    /\ UNCHANGED << opts, srcFiles, svgDefinitions, task, generatedFileNames,
                    indexFileContent, completeIconSetContent,
                    generatedTypeScriptFilePaths, folders, compiled >>

\* Lines 188-199 and 101-106: what follows the model write into the icons
\* folder: generateModelFile's own copy to the additional path, or its return.
AfterModelWrite(i, tr) ==
    IF Truthy(opts[i].additionalModelOutputPath)
    THEN /\ pc' = Set(pc, i, "writeModelFileCopy")
         /\ trace' = Set(trace, i, Append(tr, << "writeModelFileCopy", "call" >>))
    ELSE AfterModelFile(i, tr)

\* Line 188: generateModelFile's write into the icons folder settles.
WriteModelFileSettles(i, ok) ==
    /\ pc[i] = "writeModelFile"
    /\ IF ok
       THEN /\ Wrote(i, IconsFolder(opts[i]), OptionName(opts[i].modelFileName),
                     modelFile[i])
            /\ AfterModelWrite(i, Append(trace[i], << "writeModelFile", "ok" >>))
            /\ UNCHANGED failedAt
       ELSE /\ Reject(i, trace[i], "writeModelFile")
            /\ fs' = FilesAfterFailure(i)
            /\ UNCHANGED writes
    /\ UNCHANGED << opts, srcFiles, svgDefinitions, task, generatedFileNames,
                    indexFileContent, completeIconSetContent, modelFile,
                    generatedTypeScriptFilePaths, folders, compiled >>

\* Faulty variant of ReturnedModelFile: generateModelFile returns nothing.
ReturnedModelFileVoid(i) == NoContent

\* The model text the orchestrator writes to the additional path: the value
\* generateModelFile returned (lines 96, 103, 199).
ReturnedModelFile(i) == modelFile[i]

\* Lines 194-199 and 101-105: generateModelFile's copy to the additional path
\* settles; it returns and the orchestrator issues its own write there.
WriteModelFileCopySettles(i, ok) ==
    /\ pc[i] = "writeModelFileCopy"
    /\ IF ok
       THEN /\ Wrote(i, AdditionalFolder(opts[i]), OptionName(opts[i].modelFileName),
                     modelFile[i])
            /\ pc' = Set(pc, i, "writeAdditionalModel")
            /\ trace' = Set(trace, i, trace[i] \o
                   << << "writeModelFileCopy", "ok" >>, << "writeAdditionalModel", "call" >> >>)
            /\ UNCHANGED failedAt
       ELSE /\ Reject(i, trace[i], "writeModelFileCopy")
            /\ fs' = FilesAfterFailure(i)
            /\ UNCHANGED writes
    /\ UNCHANGED << opts, srcFiles, svgDefinitions, task, generatedFileNames,
                    indexFileContent, completeIconSetContent, modelFile,
                    generatedTypeScriptFilePaths, folders, compiled >>

\* Lines 102-105: the orchestrator's write to the additional path settles.
WriteAdditionalModelSettles(i, ok) ==
    /\ pc[i] = "writeAdditionalModel"
    /\ IF ok
       THEN /\ Wrote(i, AdditionalFolder(opts[i]), OptionName(opts[i].modelFileName),
                     ReturnedModelFile(i))
            /\ AfterModelFile(i, Append(trace[i], << "writeAdditionalModel", "ok" >>))
            /\ UNCHANGED failedAt
       ELSE /\ Reject(i, trace[i], "writeAdditionalModel")
            /\ fs' = FilesAfterFailure(i)
            /\ UNCHANGED writes
    /\ UNCHANGED << opts, srcFiles, svgDefinitions, task, generatedFileNames,
                    indexFileContent, completeIconSetContent, modelFile,
                    generatedTypeScriptFilePaths, folders, compiled >>

\* Faulty variant of Dispatch: the originals are deleted before anything is
\* compiled.
DispatchDeleteFirst(i, tr) ==
    IF opts[i].compilationOutput \in {"ESM", "UMD", "ESM_AND_UMD"}
    THEN /\ pc' = Set(pc, i, "deleteFiles")
         /\ trace' = Set(trace, i, tr)
    ELSE Succeed(i, Append(tr, << "Logger.error", "ok" >>))

\* Faulty variant of Dispatch: an unrecognised value falls into the ESM case.
DispatchDefaultESM(i, tr) ==
    /\ pc' = Set(pc, i, IF opts[i].compilationOutput = "UMD"
                        THEN "compileToUMD" ELSE "compileToEsNext")
    /\ trace' = Set(trace, i, tr)

\* Lines 212-231: the switch on compilationOutput picks the first call.
Dispatch(i, tr) ==
    CASE opts[i].compilationOutput \in {"ESM", "ESM_AND_UMD"} ->
            /\ pc' = Set(pc, i, "compileToEsNext")
            /\ trace' = Set(trace, i, tr)
      [] opts[i].compilationOutput = "UMD" ->
            /\ pc' = Set(pc, i, "compileToUMD")
            /\ trace' = Set(trace, i, tr)
      [] OTHER ->
            Succeed(i, Append(tr, << "Logger.error", "ok" >>))

\* Lines 208-212: getFilePathsFromRegex settles and the switch is entered.
GetFilePathsFromRegexSettles(i, ok) ==
    /\ pc[i] = "getFilePathsFromRegex"
    /\ IF ok
       THEN /\ generatedTypeScriptFilePaths' = Set(generatedTypeScriptFilePaths, i,
                   GetFilePathsFromRegex(fs, opts[i]))
            /\ Dispatch(i, Append(trace[i], << "getFilePathsFromRegex", "ok" >>))
            /\ UNCHANGED failedAt
       ELSE /\ Reject(i, trace[i], "getFilePathsFromRegex")
            /\ UNCHANGED generatedTypeScriptFilePaths
    /\ UNCHANGED << opts, srcFiles, svgDefinitions, task, generatedFileNames,
                    indexFileContent, completeIconSetContent, modelFile, fs,
                    folders, compiled, writes >>

\* The folder a compile call emits into (lines 214, 218, 222, 223).
OutDir(o, sub) ==
    IF o.compilationOutput = "ESM_AND_UMD" THEN SubFolder(o, sub) ELSE RootFolder(o)

\* A compile call returns: its output folder exists, and the compiler may
\* have left its intermediate build folder behind.
Compiled(i, outDir, module, build) ==
    /\ compiled' = compiled \cup {Emit(generatedTypeScriptFilePaths[i], outDir, module)}
    /\ folders' = folders \cup {outDir}
                          \cup (IF build THEN {SubFolder(opts[i], "build")} ELSE {})

\* Lines 214 and 222: compileToEsNext is called and returns or throws.
CompileToEsNext(i, ok, build) ==
    /\ pc[i] = "compileToEsNext"
    /\ IF ok
       THEN /\ Compiled(i, OutDir(opts[i], "esm"), "esnext", build)
            /\ pc' = Set(pc, i, IF opts[i].compilationOutput = "ESM"
                                THEN "deleteFiles" ELSE "compileToUMD")
            /\ trace' = Set(trace, i, Append(trace[i], << "compileToEsNext", "ok" >>))
            /\ UNCHANGED failedAt
       ELSE /\ Reject(i, trace[i], "compileToEsNext")
            /\ UNCHANGED << compiled, folders >>
    /\ UNCHANGED << opts, srcFiles, svgDefinitions, task, generatedFileNames,
                    indexFileContent, completeIconSetContent, modelFile,
                    generatedTypeScriptFilePaths, fs, writes >>

\* Lines 218 and 223: compileToUMD is called and returns or throws.
CompileToUMD(i, ok, build) ==
    /\ pc[i] = "compileToUMD"
    /\ IF ok
       THEN /\ Compiled(i, OutDir(opts[i], "umd"), "umd", build)
            /\ pc' = Set(pc, i, "deleteFiles")
            /\ trace' = Set(trace, i, Append(trace[i], << "compileToUMD", "ok" >>))
            /\ UNCHANGED failedAt
       ELSE /\ Reject(i, trace[i], "compileToUMD")
            /\ UNCHANGED << compiled, folders >>
    /\ UNCHANGED << opts, srcFiles, svgDefinitions, task, generatedFileNames,
                    indexFileContent, completeIconSetContent, modelFile,
                    generatedTypeScriptFilePaths, fs, writes >>

\* Faulty variant of AfterDeleteFiles: the build folder is never cleaned up.
AfterDeleteFilesNoCleanup(i, tr) == Succeed(i, tr)

\* Lines 216, 220 and 225: what follows deleteFiles in each case.
AfterDeleteFiles(i, tr) ==
    IF opts[i].compilationOutput = "ESM_AND_UMD"
    THEN /\ pc' = Set(pc, i, "deleteBuildFolder")
         /\ trace' = Set(trace, i, Append(tr, << "deleteBuildFolder", "call" >>))
    ELSE Succeed(i, tr)

\* Lines 215, 219 and 224: deleteFiles is called and returns or throws.
DeleteGeneratedFiles(i, ok) ==
    /\ pc[i] = "deleteFiles"
    /\ IF ok
       THEN /\ fs' = DeleteFiles(fs, generatedTypeScriptFilePaths[i])
            /\ AfterDeleteFiles(i, Append(trace[i], << "deleteFiles", "ok" >>))
            /\ UNCHANGED failedAt
       ELSE /\ Reject(i, trace[i], "deleteFiles")
            /\ UNCHANGED fs
    /\ UNCHANGED << opts, srcFiles, svgDefinitions, task, generatedFileNames,
                    indexFileContent, completeIconSetContent, modelFile,
                    generatedTypeScriptFilePaths, folders, compiled, writes >>

\* Line 225: deleteFolder(`${outputDirectory}/build`) settles.
DeleteBuildFolderSettles(i, ok) ==
    /\ pc[i] = "deleteBuildFolder"
    /\ IF ok
       THEN /\ folders' = folders \ {SubFolder(opts[i], "build")}
            /\ Succeed(i, Append(trace[i], << "deleteBuildFolder", "ok" >>))
            /\ UNCHANGED failedAt
       ELSE /\ Reject(i, trace[i], "deleteBuildFolder")
            /\ UNCHANGED folders
    /\ UNCHANGED << opts, srcFiles, svgDefinitions, task, generatedFileNames,
                    indexFileContent, completeIconSetContent, modelFile,
                    generatedTypeScriptFilePaths, fs, compiled, writes >>

----------------------------------------------------------------------------
\* Specifications

\* One step of invocation i, its awaited call settling with an outcome of
\* outcomes (TRUE: it resolves, FALSE: it rejects).
StepWith(i, outcomes) ==
    \/ ConvertToFiles(i)
    \/ \E ok \in outcomes : DeleteFolderSettles(i, ok)
    \/ \E ok \in outcomes : FilesProcessorSettles(i, ok)
    \/ \E k \in DOMAIN task[i], ok \in outcomes : GenerateTSXConstantSettles(i, k, ok)
    \/ \E k \in DOMAIN task[i], ok \in outcomes : WriteIconSettles(i, k, ok)
    \/ PromiseAllResolves(i)
    \/ \E ok \in outcomes : WriteCompleteIconSetSettles(i, ok)
    \/ \E ok \in outcomes : WriteBarrelSettles(i, ok)
    \/ \E ok \in outcomes : WriteModelFileSettles(i, ok)
    \/ \E ok \in outcomes : WriteModelFileCopySettles(i, ok)
    \/ \E ok \in outcomes : WriteAdditionalModelSettles(i, ok)
    \/ \E ok \in outcomes : GetFilePathsFromRegexSettles(i, ok)
    \/ \E ok \in outcomes, build \in BOOLEAN : CompileToEsNext(i, ok, build)
    \/ \E ok \in outcomes, build \in BOOLEAN : CompileToUMD(i, ok, build)
    \/ \E ok \in outcomes : DeleteGeneratedFiles(i, ok)
    \/ \E ok \in outcomes : DeleteBuildFolderSettles(i, ok)

Step(i) == StepWith(i, BOOLEAN)

Next == \E i \in Invs : Step(i)

Spec == Init /\ [][Next]_vars

\* Two runs over the same SVG sources and otherwise equal options, the first
\* with tsx = false and, once it has completed, the second with tsx = true.
InitPair ==
    /\ \E o \in {x \in Options("out") :
                    ~x.tsx /\ (x.compileSources \/ x.compilationOutput = "ESM")} :
          /\ opts = [i \in Invs |-> IF i = 1 THEN o ELSE [o EXCEPT !.tsx = TRUE]]
          /\ fs \in InitialFiles(o)
    /\ srcFiles \in 0..MaxIcons
    /\ folders \in {{}, {<< "out", "build" >>}}
    /\ pc = [i \in Invs |-> "idle"]
    /\ Quiescent

NextPair ==
    \E i \in Invs :
        /\ i = 2 => pc[1] = "done"
        /\ Step(i)

SpecPair == InitPair /\ [][NextPair]_vars

\* Two invocations with the same options, hence the same output directory
\* and the same SVG sources, running interleaved; every collaborator call
\* resolves.
InitShared ==
    /\ \E o \in {x \in Options("out") :
                    /\ x.compileSources = (x.compilationOutput # "CJS")
                    /\ Truthy(x.additionalModelOutputPath) => Truthy(x.modelFileName)} :
          opts = [i \in Invs |-> o]
    /\ fs = EmptyFiles
    /\ srcFiles \in 1..MaxSharedIcons
    /\ folders = {}
    /\ pc = [i \in Invs |-> "idle"]
    /\ Quiescent

NextShared == \E i \in Invs : StepWith(i, {TRUE})

SpecShared == InitShared /\ [][NextShared]_vars

\* One invocation all of whose collaborator calls eventually settle, by
\* resolving or by rejecting: a step of the invocation that stays possible is
\* eventually taken.
SpecFair == Init /\ [][Next]_vars /\ \A i \in Invs : WF_vars(Step(i))

----------------------------------------------------------------------------
\* Reading the trace

Ops(tr) == [k \in 1..Len(tr) |-> tr[k][1]]

\* How many of the first k-1 events of tr are the event e.
Before(tr, k, e) == Cardinality({j \in 1..(k - 1) : tr[j] = e})

\* The stage of the pipeline a collaborator call belongs to.
StageOf(op) ==
    CASE op = "deleteFolder" -> 1
      [] op = "filesProcessor" -> 2
      [] op \in {"generateTSXConstant", "writeIcon", "generate"} -> 3
      [] op = "writeCompleteIconSet" -> 4
      [] op = "writeBarrel" -> 5
      [] op \in {"writeModelFile", "writeModelFileCopy", "writeAdditionalModel"} -> 6
      [] op \in {"getFilePathsFromRegex", "compileToEsNext", "compileToUMD",
                 "deleteFiles", "deleteBuildFolder", "Logger.error"} -> 7
      [] OTHER -> 8

PerIconOps == {"generateTSXConstant", "writeIcon"}

AwaitedOps ==
    {"deleteFolder", "filesProcessor", "generateTSXConstant", "writeIcon",
     "writeCompleteIconSet", "writeBarrel", "writeModelFile", "writeModelFileCopy",
     "writeAdditionalModel", "getFilePathsFromRegex", "deleteBuildFolder"}

\* The calls that have returned successfully, in order, without the
\* per-icon generateTSXConstant calls.
Completed(tr) ==
    Ops(SelectSeq(tr, LAMBDA e : e[2] = "ok" /\ e[1] # "generateTSXConstant"))

\* The side effects a successful invocation is to perform, in order.
ExpectedEffects(o, n) ==
    << "deleteFolder", "filesProcessor" >>
    \o [k \in 1..n |-> "writeIcon"] \o << "generate" >>
    \o (IF o.exportCompleteIconSet THEN << "writeCompleteIconSet" >> ELSE <<>>)
    \o << "writeBarrel" >>
    \o (IF Truthy(o.modelFileName)
        THEN << "writeModelFile" >>
             \o (IF Truthy(o.additionalModelOutputPath)
                 THEN << "writeModelFileCopy", "writeAdditionalModel" >> ELSE <<>>)
        ELSE <<>>)
    \o (IF o.compileSources
        THEN << "getFilePathsFromRegex" >>
             \o (CASE o.compilationOutput = "ESM" -> << "compileToEsNext", "deleteFiles" >>
                   [] o.compilationOutput = "UMD" -> << "compileToUMD", "deleteFiles" >>
                   [] o.compilationOutput = "ESM_AND_UMD" ->
                        << "compileToEsNext", "compileToUMD", "deleteFiles",
                           "deleteBuildFolder" >>
                   [] OTHER -> << "Logger.error" >>)
        ELSE <<>>)
    \o << "generationSuccess" >>

\* No awaited call other than op (and, for a per-icon call, other than the
\* per-icon calls) is still pending when event k of tr is issued.
NothingPendingAt(tr, k) ==
    \A x \in AwaitedOps :
        (x # tr[k][1] /\ ~(x \in PerIconOps /\ tr[k][1] \in PerIconOps))
            => Before(tr, k, << x, "call" >>) = Before(tr, k, << x, "ok" >>)

----------------------------------------------------------------------------
\* Claims

\* C1: in every invocation the side effects occur in the fixed stage order
\* (delete folder, read SVGs, per-icon writes, complete icon set, barrel,
\* model file(s), compiler, success log): stages never go backwards in the
\* trace, no call is issued while a call of an earlier stage is pending, and
\* a completed invocation has performed exactly the expected effects in the
\* expected order, with the success log last.
C1_FixedStageOrder ==
    \A i \in Invs :
        /\ \A j, k \in 1..Len(trace[i]) :
              j < k => StageOf(trace[i][j][1]) <= StageOf(trace[i][k][1])
        /\ \A k \in 1..Len(trace[i]) :
              trace[i][k][2] = "call" => NothingPendingAt(trace[i], k)
        /\ pc[i] = "done" =>
              Completed(trace[i]) = ExpectedEffects(opts[i], Len(svgDefinitions[i]))

\* C1 witness: a completed run with every optional stage and two icons.
C1_Witness ==
    /\ pc[1] = "done"
    /\ Len(svgDefinitions[1]) >= 2
    /\ opts[1].exportCompleteIconSet
    /\ Truthy(opts[1].modelFileName) /\ Truthy(opts[1].additionalModelOutputPath)
    /\ opts[1].compileSources /\ opts[1].compilationOutput = "ESM_AND_UMD"


----------------------------------------------------------------------------
\* Reading the write log

Range(f) == {f[k] : k \in DOMAIN f}

WrittenPaths(i) == {w.path : w \in Range(writes[i])}

TimesWritten(i, p) == Cardinality({k \in DOMAIN writes[i] : writes[i][k].path = p})

\* The files an invocation is to leave in its output directory.
IconPaths(i) ==
    { FilePath(IconsFolder(opts[i]), GeneratedFileName(svgDefinitions[i][k]),
               IF opts[i].tsx THEN "TSX" ELSE "TS") : k \in DOMAIN svgDefinitions[i] }

ModelPath(o) == FilePath(IconsFolder(o), OptionName(o.modelFileName), "TS")

AdditionalModelPath(o) == FilePath(AdditionalFolder(o), OptionName(o.modelFileName), "TS")

CompleteIconSetPath(o) == FilePath(IconsFolder(o), OptionName(o.completeIconSetName), "TS")

ExpectedOutput(i) ==
    IconPaths(i) \cup {BarrelPath(opts[i])}
        \cup (IF Truthy(opts[i].modelFileName) THEN {ModelPath(opts[i])} ELSE {})
        \cup (IF opts[i].exportCompleteIconSet THEN {CompleteIconSetPath(opts[i])} ELSE {})

InOutputDirectory(o, p) == p.dir \in {IconsFolder(o), RootFolder(o)}

\* C2: a run over a non-empty SVG set that completes has written, inside its
\* output directory, exactly one file per SVG definition (pairwise distinct
\* paths, each written once), exactly one barrel file, exactly one model file
\* iff modelFileName is set and exactly one complete-icon-set file iff
\* exportCompleteIconSet is set, and nothing else; without a compile stage
\* these are exactly the files then present in the icons folder.
C2_OneFilePerDefinition ==
    \A i \in Invs :
        (pc[i] = "done" /\ Len(svgDefinitions[i]) >= 1) =>
            /\ {p \in WrittenPaths(i) : InOutputDirectory(opts[i], p)} = ExpectedOutput(i)
            /\ \A p \in ExpectedOutput(i) : TimesWritten(i, p) = 1
            /\ Cardinality(IconPaths(i)) = Len(svgDefinitions[i])
            /\ Cardinality(ExpectedOutput(i)) = Len(svgDefinitions[i]) + 1
                    + (IF Truthy(opts[i].modelFileName) THEN 1 ELSE 0)
                    + (IF opts[i].exportCompleteIconSet THEN 1 ELSE 0)
            /\ ~opts[i].compileSources =>
                  {p \in DOMAIN fs : InOutputDirectory(opts[i], p)} = ExpectedOutput(i)

\* C2 witness: a completed run over two SVGs with model and complete icon set.
C2_Witness ==
    /\ pc[1] = "done"
    /\ Len(svgDefinitions[1]) >= 2
    /\ Truthy(opts[1].modelFileName)
    /\ opts[1].exportCompleteIconSet
    /\ ~opts[1].compileSources
    /\ Cardinality({p \in DOMAIN fs : InOutputDirectory(opts[1], p)}) >= 5

\* The names the barrel files written by invocation i export.
BarrelExports(i) ==
    { Range(w.content.exports) : w \in {x \in Range(writes[i]) : x.path = BarrelPath(opts[i])} }

PerIconNames(i) == { GeneratedFileName(svgDefinitions[i][k]) : k \in DOMAIN svgDefinitions[i] }

\* C3 as stated: the barrel exports exactly the per-icon file names and the
\* model file name.
C3_Original ==
    \A i \in Invs : \A exported \in BarrelExports(i) :
        exported = PerIconNames(i) \cup {OptionName(opts[i].modelFileName)}

\* C3 amended: for every option combination and every interleaving of the
\* per-icon writes, the set of names exported by the barrel file is exactly
\* the per-icon file names, plus the complete-icon-set name when
\* exportCompleteIconSet is set, plus the model file name.
C3_BarrelExports ==
    \A i \in Invs : \A exported \in BarrelExports(i) :
        exported = PerIconNames(i) \cup {OptionName(opts[i].modelFileName)}
                     \cup (IF opts[i].exportCompleteIconSet
                           THEN {OptionName(opts[i].completeIconSetName)} ELSE {})

\* C3 witness: a barrel written in TSX mode, with the complete icon set, whose
\* export order differs from the input order.
C3_Witness ==
    /\ BarrelExports(1) # {}
    /\ opts[1].tsx /\ opts[1].exportCompleteIconSet
    /\ Len(svgDefinitions[1]) >= 2
    /\ generatedFileNames[1][1] = GeneratedFileName(svgDefinitions[1][2])


\* The file a name of generatedFileNames refers to.
NamedPath(o, name) ==
    FilePath(IconsFolder(o), name,
             IF name = OptionName(o.completeIconSetName) THEN "TS"
             ELSE IF o.tsx THEN "TSX" ELSE "TS")

\* The barrel of invocation i has been assembled (line 85 has read
\* generatedFileNames).
BarrelAssembled(i) == indexFileContent[i] # NoContent

\* C4: from the moment barrel assembly reads generatedFileNames on (so also
\* when the barrel file is written), every entry of generatedFileNames names
\* a file whose write into the icons folder has completed successfully, and no
\* per-icon or complete-icon-set write is pending; while the barrel write is
\* in flight each of these files is on disk.
C4_NamesWrittenBeforeBarrel ==
    \A i \in Invs :
        BarrelAssembled(i) =>
            /\ \A name \in Range(generatedFileNames[i]) :
                  NamedPath(opts[i], name) \in WrittenPaths(i)
            /\ \A k \in DOMAIN task[i] : task[i][k] = "done"
            /\ Len(generatedFileNames[i]) = Len(svgDefinitions[i])
                    + (IF opts[i].exportCompleteIconSet THEN 1 ELSE 0)
            /\ pc[i] = "writeBarrel" =>
                  \A name \in Range(generatedFileNames[i]) :
                      NamedPath(opts[i], name) \in DOMAIN fs

\* C4 witness: a TSX barrel in flight over two icons and the complete set.
C4_Witness ==
    /\ pc[1] = "writeBarrel"
    /\ opts[1].tsx /\ opts[1].exportCompleteIconSet
    /\ Len(generatedFileNames[1]) >= 3

\* The per-icon stage of invocation i has been started.
StageStarted(i) == \E k \in DOMAIN trace[i] : trace[i][k] = << "filesProcessor", "ok" >>

\* The per-icon stage has resolved.
StageResolved(i) == \E k \in DOMAIN trace[i] : trace[i][k] = << "generate", "ok" >>

\* The per-icon stage has rejected.
StageRejected(i) == pc[i] = "rejected" /\ failedAt[i] \in PerIconOps

PendingTasks(i) == {k \in DOMAIN task[i] : task[i][k] \in {"generateTSXConstant", "writeFile"}}

\* C5 as stated: the per-icon stage completes, by success or by failure, only
\* once every per-icon write it issued has settled.
C5_Original ==
    \A i \in Invs :
        (StageResolved(i) \/ StageRejected(i)) => PendingTasks(i) = {}

\* C5 amended: the per-icon stage completes successfully only once every
\* per-icon write it issued has settled successfully; if any single per-icon
\* task fails, the whole stage (and the invocation) fails, at once and
\* without waiting for the writes still pending.
C5_JoinOnAllFailOnFirst ==
    \A i \in Invs :
        /\ StageResolved(i) => \A k \in DOMAIN task[i] : task[i][k] = "done"
        /\ (\E k \in DOMAIN task[i] : task[i][k] = "failed") => StageRejected(i)
        /\ StageRejected(i) => \E k \in DOMAIN task[i] : task[i][k] = "failed"

\* C5 witness: the stage has failed on one icon while another icon's write is
\* still in flight.
C5_Witness ==
    /\ StageRejected(1)
    /\ \E k \in DOMAIN task[1] : task[1][k] = "failed"
    /\ \E k \in DOMAIN task[1] : task[1][k] = "writeFile"

\* The first failed call in a trace (0 if none).
FirstFailure(tr) ==
    IF \E k \in DOMAIN tr : tr[k][2] = "fail"
    THEN CHOOSE k \in DOMAIN tr :
            /\ tr[k][2] = "fail"
            /\ \A j \in 1..(k - 1) : tr[j][2] # "fail"
    ELSE 0

\* C6: when any call of any stage fails, convertToFiles is rejected with that
\* failure, nothing of a later stage is called or performed afterwards (only
\* per-icon tasks already started may still settle), and the success log line
\* is never emitted.
C6_FailFast ==
    \A i \in Invs :
        LET f == FirstFailure(trace[i]) IN
        /\ f # 0 =>
              /\ pc[i] = "rejected"
              /\ failedAt[i] = trace[i][f][1]
              /\ \A k \in (f + 1)..Len(trace[i]) :
                    /\ trace[i][k][1] \in PerIconOps
                    /\ trace[i][f][1] \in PerIconOps
              /\ \A k \in DOMAIN trace[i] : trace[i][k][1] # "generationSuccess"
        /\ pc[i] = "rejected" => f # 0

\* C6 witness: the second compile call of ESM_AND_UMD has thrown.
C6_Witness ==
    /\ pc[1] = "rejected"
    /\ failedAt[1] = "compileToUMD"
    /\ opts[1].compilationOutput = "ESM_AND_UMD"
    /\ SubFolder(opts[1], "esm") \in folders

\* C6 witness for the per-icon stage: a task settles after the rejection.
C6_WitnessLateTask ==
    LET f == FirstFailure(trace[1]) IN
    /\ f # 0
    /\ f < Len(trace[1])

\* C7: with compileSources and compilationOutput = ESM_AND_UMD, when
\* convertToFiles has completed no .ts file is left in the icons folder (nor
\* the barrel .ts), the esm and the umd folder exist and the build folder
\* does not.
C7_EsmAndUmdLayout ==
    \A i \in Invs :
        (pc[i] = "done" /\ opts[i].compileSources
            /\ opts[i].compilationOutput = "ESM_AND_UMD") =>
            /\ \A p \in DOMAIN fs : ~(p.dir = IconsFolder(opts[i]) /\ p.ext = "ts")
            /\ BarrelPath(opts[i]) \notin DOMAIN fs
            /\ SubFolder(opts[i], "esm") \in folders
            /\ SubFolder(opts[i], "umd") \in folders
            /\ SubFolder(opts[i], "build") \notin folders

\* C7 witness: such a run has completed after .ts sources had been written
\* to the icons folder and compiled.
C7_Witness ==
    /\ pc[1] = "done" /\ opts[1].compileSources
    /\ opts[1].compilationOutput = "ESM_AND_UMD"
    /\ ~opts[1].tsx
    /\ \E p \in generatedTypeScriptFilePaths[1] : p.dir = IconsFolder(opts[1])
    /\ Cardinality(compiled) = 2

ValidOutputs == {"ESM", "UMD", "ESM_AND_UMD"}

\* C8: with compileSources and a compilationOutput that is none of ESM, UMD,
\* ESM_AND_UMD, once the generated paths are resolved convertToFiles completes
\* with the success log; no compile call is made, no compiler folder is
\* created, no generated file is deleted and exactly one error is logged.
C8_InvalidOutput ==
    \A i \in Invs :
        (opts[i].compileSources /\ opts[i].compilationOutput \notin ValidOutputs
            /\ \E k \in DOMAIN trace[i] : trace[i][k] = << "getFilePathsFromRegex", "ok" >>) =>
            /\ pc[i] = "done"
            /\ trace[i][Len(trace[i])] = << "generationSuccess", "ok" >>
            /\ \A k \in DOMAIN trace[i] :
                  trace[i][k][1] \notin {"compileToEsNext", "compileToUMD",
                                         "deleteFiles", "deleteBuildFolder"}
            /\ compiled = {}
            /\ folders \subseteq {SubFolder(opts[i], "build")}
            /\ \A p \in WrittenPaths(i) : p \in DOMAIN fs
            /\ Cardinality({k \in DOMAIN trace[i] : trace[i][k][1] = "Logger.error"}) = 1

\* C8 witness: a completed run with an unrecognised compilationOutput.
C8_Witness ==
    /\ pc[1] = "done"
    /\ opts[1].compileSources /\ opts[1].compilationOutput \notin ValidOutputs
    /\ Len(writes[1]) >= 3

\* C10: with modelFileName and additionalModelOutputPath set, every write made
\* to the model file in the icons folder or at the additional path carries the
\* same content; after a successful run both have been written, the copy at
\* the additional path holds that content, and so does the file in the icons
\* folder unless the compile stage has deleted it.
C10_IdenticalModelCopies ==
    \A i \in Invs :
        LET o == opts[i]
            modelWrites == {w \in Range(writes[i]) :
                               w.path \in {ModelPath(o), AdditionalModelPath(o)}}
        IN  (Truthy(o.modelFileName) /\ Truthy(o.additionalModelOutputPath)) =>
            /\ \A w1, w2 \in modelWrites : w1.content = w2.content
            /\ \A w \in modelWrites : w.content.kind = "model"
            /\ pc[i] = "done" =>
                  /\ {w.path : w \in modelWrites} = {ModelPath(o), AdditionalModelPath(o)}
                  /\ \A w \in modelWrites : fs[AdditionalModelPath(o)] = w.content
                  /\ ModelPath(o) \in DOMAIN fs =>
                        fs[ModelPath(o)] = fs[AdditionalModelPath(o)]
                  /\ ~o.compileSources => ModelPath(o) \in DOMAIN fs

\* C10 witness: a completed TSX run with both model locations written.
C10_Witness ==
    /\ pc[1] = "done"
    /\ Truthy(opts[1].modelFileName) /\ Truthy(opts[1].additionalModelOutputPath)
    /\ opts[1].tsx /\ Len(svgDefinitions[1]) >= 1
    /\ ModelPath(opts[1]) \in DOMAIN fs
    /\ AdditionalModelPath(opts[1]) \in DOMAIN fs


\* v2 is v1 with its first character upper-cased and nothing else changed.
FirstCharUpper(v1, v2) ==
    /\ Len(v2) = Len(v1)
    /\ \A k \in 2..Len(v1) : v2[k] = v1[k]
    /\ Len(v1) >= 1 => v2[1] = ToUpperCase(v1[1])

\* The definitions defs2 are defs1 with each variable name's first character
\* upper-cased.
SameButCasing(defs1, defs2) ==
    /\ Len(defs2) = Len(defs1)
    /\ \A k \in DOMAIN defs1 :
          /\ FirstCharUpper(defs1[k].variableName, defs2[k].variableName)
          /\ [defs2[k] EXCEPT !.variableName = <<>>] = [defs1[k] EXCEPT !.variableName = <<>>]

IsIconFile(w) == w.content.kind \in {"svgConstant", "tsxConstant"}

\* Write w2 of the tsx run is the counterpart of write w1 of the plain run.
Counterpart(w1, w2) ==
    /\ w2.path.dir = w1.path.dir
    /\ w2.path.name = w1.path.name
    /\ IF IsIconFile(w1)
       THEN /\ w1.path.ext = "ts" /\ w2.path.ext = "tsx"
            /\ w1.content.kind = "svgConstant" /\ w2.content.kind = "tsxConstant"
            /\ w2.content.data = w1.content.data
            /\ FirstCharUpper(w1.content.variableName, w2.content.variableName)
       ELSE /\ w2.path.ext = w1.path.ext
            /\ w2.content.kind = w1.content.kind
            /\ w1.content.kind = "barrel" =>
                  /\ Range(w2.content.exports) = Range(w1.content.exports)
                  /\ w2.content.typeHelper = w1.content.typeHelper
            /\ w1.content.kind \in {"model", "completeIconSet"} =>
                  /\ SameButCasing(w1.content.definitions, w2.content.definitions)
                  /\ w2.content.name = w1.content.name

\* C9: the run with tsx = false (1) and the run with tsx = true (2) over the
\* same SVG definitions and otherwise equal options write the same number of
\* files, under the same per-icon file names prefix-filenameWithoutEnding.icon,
\* and export the same set of names from the barrel; every file of one run
\* has its counterpart in the other, which differs in kind and extension only
\* for the per-icon files (ts / tsx), and the variable names differ only in
\* the first character being upper-cased.  The runs are compared on the
\* files they generate, before any compile stage removes sources.
C9_TsxChangesExtensionAndCasing ==
    (pc[1] = "done" /\ pc[2] = "done") =>
        /\ Len(writes[1]) = Len(writes[2])
        /\ Cardinality(WrittenPaths(1)) = Cardinality(WrittenPaths(2))
        /\ {w.path.name : w \in {x \in Range(writes[1]) : IsIconFile(x)}}
              = {w.path.name : w \in {x \in Range(writes[2]) : IsIconFile(x)}}
        /\ \A w \in Range(writes[1]) \cup Range(writes[2]) :
              IsIconFile(w) =>
                 \E d \in Range(svgDefinitions[1]) :
                    w.path.name = << d.prefix, "-", d.filenameWithoutEnding, ".icon" >>
        /\ Range(generatedFileNames[1]) = Range(generatedFileNames[2])
        /\ BarrelExports(1) = BarrelExports(2)
        /\ \A w1 \in Range(writes[1]) : \E w2 \in Range(writes[2]) : Counterpart(w1, w2)
        /\ \A w2 \in Range(writes[2]) : \E w1 \in Range(writes[1]) : Counterpart(w1, w2)
        /\ SameButCasing(svgDefinitions[1], svgDefinitions[2])

\* C9 witness: both runs have completed over two icons, a variable name was
\* changed by the tsx run, and the tsx run pushed its names out of input order.
C9_Witness ==
    /\ pc[1] = "done" /\ pc[2] = "done"
    /\ Len(svgDefinitions[1]) >= 2
    /\ svgDefinitions[1][1].variableName # svgDefinitions[2][1].variableName
    /\ generatedFileNames[1] # generatedFileNames[2]

----------------------------------------------------------------------------
\* The post-compilation stage

\* The compile calls of each recognised compilationOutput.
CompileCallsOf(output) ==
    CASE output = "ESM" -> {"compileToEsNext"}
      [] output = "UMD" -> {"compileToUMD"}
      [] output = "ESM_AND_UMD" -> {"compileToEsNext", "compileToUMD"}
      [] OTHER -> {}

\* The module kinds the compile calls of each case emit.
ModulesOf(output) ==
    CASE output = "ESM" -> {"esnext"}
      [] output = "UMD" -> {"umd"}
      [] output = "ESM_AND_UMD" -> {"esnext", "umd"}
      [] OTHER -> {}

\* Position of the first event e in tr, or 0.
IndexOf(tr, e) ==
    IF \E k \in 1..Len(tr) : tr[k] = e
    THEN CHOOSE k \in 1..Len(tr) : tr[k] = e /\ \A j \in 1..(k - 1) : tr[j] # e
    ELSE 0

\* C11: in the post-compilation stage of each of ESM, UMD and ESM_AND_UMD the
\* deletion of the original TypeScript files begins only after every compile
\* call of the case has finished (each has returned once, and its output has
\* been emitted, before deleteFiles is entered); in ESM_AND_UMD the build
\* folder is deleted only after the originals have been deleted; and the
\* invocation completes only after all of these operations have finished.
C11_DeleteAfterCompile ==
    \A i \in Invs :
        LET tr == trace[i]
            out == opts[i].compilationOutput
            deleting == pc[i] = "deleteFiles"
                        \/ \E k \in 1..Len(tr) : tr[k][1] = "deleteFiles"
        IN  /\ deleting =>
                  /\ out \in ValidOutputs
                  /\ \A c \in CompileCallsOf(out) :
                        Cardinality({k \in 1..Len(tr) : tr[k] = << c, "ok" >>}) = 1
                  /\ \A k \in 1..Len(tr) :
                        tr[k][1] = "deleteFiles" =>
                            \A c \in CompileCallsOf(out) : Before(tr, k, << c, "ok" >>) = 1
                  /\ \A m \in ModulesOf(out) :
                        \E e \in compiled :
                            e.module = m /\ e.sources = generatedTypeScriptFilePaths[i]
            /\ \A k \in 1..Len(tr) :
                  tr[k][1] = "deleteBuildFolder" =>
                      /\ out = "ESM_AND_UMD"
                      /\ Before(tr, k, << "deleteFiles", "ok" >>) = 1
            /\ (pc[i] = "done" /\ opts[i].compileSources /\ out \in ValidOutputs) =>
                  LET last == Len(tr)
                  IN  /\ tr[last] = << "generationSuccess", "ok" >>
                      /\ \A c \in CompileCallsOf(out) : Before(tr, last, << c, "ok" >>) = 1
                      /\ Before(tr, last, << "deleteFiles", "ok" >>) = 1
                      /\ out = "ESM_AND_UMD" =>
                            Before(tr, last, << "deleteBuildFolder", "ok" >>) = 1
                      /\ \A p \in generatedTypeScriptFilePaths[i] : p \notin DOMAIN fs

\* C11 witness: an ESM_AND_UMD run over at least one icon has completed after
\* both compile calls, the deletion of the originals and of the build folder.
C11_Witness ==
    /\ pc[1] = "done"
    /\ opts[1].compileSources /\ opts[1].compilationOutput = "ESM_AND_UMD"
    /\ Len(svgDefinitions[1]) >= 1
    /\ generatedTypeScriptFilePaths[1] # {}
    /\ IndexOf(trace[1], << "compileToEsNext", "ok" >>) > 0
    /\ IndexOf(trace[1], << "compileToEsNext", "ok" >>)
            < IndexOf(trace[1], << "compileToUMD", "ok" >>)
    /\ IndexOf(trace[1], << "compileToUMD", "ok" >>)
            < IndexOf(trace[1], << "deleteFiles", "ok" >>)
    /\ IndexOf(trace[1], << "deleteFiles", "ok" >>)
            < IndexOf(trace[1], << "deleteBuildFolder", "call" >>)

----------------------------------------------------------------------------
\* The order of generatedFileNames

\* The per-icon entries of generatedFileNames, in order.
IconEntries(i) == SelectSeq(generatedFileNames[i], LAMBDA n : n \in PerIconNames(i))

\* The file names of the per-icon writes that have completed, in completion
\* order.
WriteOrder(i) ==
    LET ws == SelectSeq(writes[i], LAMBDA w : w.path \in IconPaths(i))
    IN  [k \in 1..Len(ws) |-> ws[k].path.name]

\* The per-icon file names in input order.
InputOrder(i) == [k \in 1..Len(svgDefinitions[i]) |-> GeneratedFileName(svgDefinitions[i][k])]

\* C12 as stated: in both modes a name is appended to generatedFileNames when
\* its icon's write completes, so the per-icon entries are the names of the
\* completed per-icon writes in completion order.
C12_Original ==
    \A i \in Invs : IconEntries(i) = WriteOrder(i)

\* C12 amended: in SVG mode the per-icon entries of generatedFileNames are,
\* from the start of the per-icon stage on, the names of all icons in input
\* order, whatever the completion order of the writes. In TSX mode a name is
\* appended when the icon's generateTSXConstant call resolves, before its write
\* is issued: there is one entry per resolved generateTSXConstant call, no
\* icon still generating has an entry, every icon whose write is pending or
\* completed has one, and no name occurs twice.
C12_NamesPushedBeforeWrite ==
    \A i \in Invs :
        StageStarted(i) =>
            IF opts[i].tsx
            THEN /\ Len(IconEntries(i)) =
                        Cardinality({k \in 1..Len(trace[i]) :
                                        trace[i][k] = << "generateTSXConstant", "ok" >>})
                 /\ \A k \in DOMAIN task[i] :
                        /\ task[i][k] = "generateTSXConstant" =>
                              InputOrder(i)[k] \notin Range(IconEntries(i))
                        /\ task[i][k] \in {"writeFile", "done"} =>
                              InputOrder(i)[k] \in Range(IconEntries(i))
                 /\ Cardinality(Range(IconEntries(i))) = Len(IconEntries(i))
                 /\ Range(WriteOrder(i)) \subseteq Range(IconEntries(i))
            ELSE IconEntries(i) = InputOrder(i)

\* C12 witness: a TSX run over two icons whose per-icon stage has resolved
\* with generatedFileNames in neither input order nor the completion order of
\* the writes.
C12_Witness ==
    /\ opts[1].tsx
    /\ StageResolved(1)
    /\ Len(svgDefinitions[1]) >= 2
    /\ Len(WriteOrder(1)) = Len(svgDefinitions[1])
    /\ IconEntries(1) # InputOrder(1)
    /\ IconEntries(1) # WriteOrder(1)

\* C12 witness, SVG mode: the second icon's write has completed before the
\* first's while generatedFileNames is in input order.
C12_WitnessSvg ==
    /\ ~opts[1].tsx
    /\ StageResolved(1)
    /\ Len(svgDefinitions[1]) >= 2
    /\ Len(WriteOrder(1)) = Len(svgDefinitions[1])
    /\ WriteOrder(1) # InputOrder(1)
    /\ IconEntries(1) = InputOrder(1)

----------------------------------------------------------------------------
\* The content of the barrel file

\* The barrel contents written by invocation i.
BarrelsWritten(i) ==
    { w.content : w \in {x \in Range(writes[i]) : x.path = BarrelPath(opts[i])} }

\* C13: the barrel file consists of the type-helper import, then one export
\* per entry of generatedFileNames in the order of the entries, the
\* complete-icon-set name being the last of them when exportCompleteIconSet is
\* set, then exactly one export for the model file; the model export is there
\* for every option combination, also when modelFileName is not configured
\* (it then names the undefined value, and no model file is written).
C13_BarrelLayout ==
    \A i \in Invs : \A b \in BarrelsWritten(i) \cup ({indexFileContent[i]} \ {NoContent}) :
        LET names == generatedFileNames[i]
            n == Len(svgDefinitions[i])
            model == << opts[i].modelFileName >>
            set == << opts[i].completeIconSetName >>
        IN  /\ b.kind = "barrel"
            /\ b.typeHelper = model
            /\ Len(b.exports) = Len(names) + 1
            /\ \A k \in 1..Len(names) : b.exports[k] = names[k]
            /\ Len(names) = n + (IF opts[i].exportCompleteIconSet THEN 1 ELSE 0)
            /\ {names[k] : k \in 1..n} = PerIconNames(i)
            /\ opts[i].exportCompleteIconSet =>
                  /\ names[Len(names)] = set
                  /\ b.exports[Len(b.exports) - 1] = set
            /\ b.exports[Len(b.exports)] = model
            /\ Cardinality({k \in 1..Len(b.exports) : b.exports[k] = model}) = 1
            /\ ~Truthy(opts[i].modelFileName) =>
                  /\ b.exports[Len(b.exports)] = << Undefined >>
                  /\ \A w \in Range(writes[i]) : w.content.kind # "model"

\* C13 witness: a completed run over two icons with the complete icon set and
\* without modelFileName whose barrel, written to disk, ends with the
\* complete-icon-set export followed by the export of the undefined model
\* name.
C13_Witness ==
    /\ pc[1] = "done"
    /\ ~Truthy(opts[1].modelFileName)
    /\ opts[1].exportCompleteIconSet
    /\ ~opts[1].compileSources
    /\ Len(svgDefinitions[1]) >= 2
    /\ BarrelPath(opts[1]) \in DOMAIN fs
    /\ fs[BarrelPath(opts[1])] \in BarrelsWritten(1)
    /\ Len(fs[BarrelPath(opts[1])].exports) = 4
    /\ fs[BarrelPath(opts[1])].exports[3] = << opts[1].completeIconSetName >>
    /\ fs[BarrelPath(opts[1])].exports[4] = << Undefined >>

----------------------------------------------------------------------------
\* Calls that never settle

\* How many calls of op invocation i has issued that have not settled.
Pending(i, op) ==
    Cardinality({k \in 1..Len(trace[i]) : trace[i][k] = << op, "call" >>})
      - Cardinality({k \in 1..Len(trace[i]) :
                        trace[i][k] \in {<< op, "ok" >>, << op, "fail" >>}})

\* Invocation i has completed: resolved with the success log, or rejected.
Terminated(i) == pc[i] \in {"done", "rejected"}

\* C14 as stated: an invocation with a call that never settles never
\* completes, neither by the success log nor by rejecting; that is, whenever
\* an invocation has completed, no call it issued is still unsettled (a run
\* that stops in a state that breaks this is a run in which the call never
\* settles and the invocation has completed).
C14_Original ==
    \A i \in Invs : Terminated(i) => \A op \in AwaitedOps : Pending(i, op) = 0

\* C14 amended: an invocation with a call that never settles never emits the
\* success log, and it does not reject either unless the unsettled call is a
\* per-icon call and another per-icon call of the same stage has failed: a
\* resolved invocation has no unsettled call, has had every synchronous
\* compile and delete call of its case return, and a rejected invocation has
\* unsettled calls only among the per-icon calls and only when it was rejected
\* by a per-icon failure.
C14_HungCallBlocksSuccess ==
    \A i \in Invs :
        /\ (\E k \in 1..Len(trace[i]) : trace[i][k][1] = "generationSuccess") =>
              /\ pc[i] = "done"
              /\ \A op \in AwaitedOps : Pending(i, op) = 0
              /\ PendingTasks(i) = {}
              /\ (opts[i].compileSources /\ opts[i].compilationOutput \in ValidOutputs) =>
                    \A c \in CompileCallsOf(opts[i].compilationOutput) \cup {"deleteFiles"} :
                        \E k \in 1..Len(trace[i]) : trace[i][k] = << c, "ok" >>
        /\ pc[i] = "done" =>
              \E k \in 1..Len(trace[i]) : trace[i][k][1] = "generationSuccess"
        /\ pc[i] = "rejected" =>
              /\ \A op \in AwaitedOps \ PerIconOps : Pending(i, op) = 0
              /\ (\E op \in PerIconOps : Pending(i, op) > 0) => failedAt[i] \in PerIconOps
        /\ pc[i] \in {"compileToEsNext", "compileToUMD", "deleteFiles"} =>
              \A k \in 1..Len(trace[i]) : trace[i][k][1] # "generationSuccess"

\* C14 witness: a TSX invocation has been rejected by the failed write of one
\* icon while the generateTSXConstant call of another icon is still unsettled.
C14_Witness ==
    /\ pc[1] = "rejected"
    /\ opts[1].tsx
    /\ failedAt[1] = "writeIcon"
    /\ Pending(1, "generateTSXConstant") > 0
    /\ \E k \in DOMAIN task[1] : task[1][k] = "generateTSXConstant"

----------------------------------------------------------------------------
\* What a failed invocation leaves behind

DeleteOps == {"deleteFolder", "deleteFiles", "deleteBuildFolder"}

\* The content invocation i wrote last to path p.
LastWritten(i, p) ==
    LET ks == {k \in DOMAIN writes[i] : writes[i][k].path = p}
    IN  writes[i][CHOOSE k \in ks : \A j \in ks : j <= k].content

\* C15: after a failure at any stage (a failed per-icon write included) every
\* file the invocation wrote earlier is left in place with the content
\* written, the files of the other icons whose writes completed among them;
\* convertToFiles performs no delete or clean-up action after a failure: no
\* delete call follows the first failure in the trace, and the only written
\* files missing from the disk are the ones deleteFiles removed before the
\* failure.
C15_NoCleanupAfterFailure ==
    \A i \in Invs :
        pc[i] = "rejected" =>
            LET f == FirstFailure(trace[i])
                deleted == IF \E k \in 1..(f - 1) : trace[i][k] = << "deleteFiles", "ok" >>
                           THEN generatedTypeScriptFilePaths[i] ELSE {}
            IN  /\ f # 0
                /\ \A k \in (f + 1)..Len(trace[i]) : trace[i][k][1] \notin DeleteOps
                /\ \A p \in WrittenPaths(i) \ deleted :
                      /\ p \in DOMAIN fs
                      /\ fs[p] = LastWritten(i, p)
                /\ \A k \in DOMAIN task[i] :
                      task[i][k] = "done" =>
                          \E p \in IconPaths(i) \cap WrittenPaths(i) :
                              /\ p.name = GeneratedFileName(svgDefinitions[i][k])
                              /\ p \in DOMAIN fs \/ p \in deleted

\* C15 witness: the write of one icon has failed and rejected the invocation
\* while the file of another icon, written before, is on disk.
C15_Witness ==
    /\ pc[1] = "rejected"
    /\ failedAt[1] = "writeIcon"
    /\ \E k \in DOMAIN task[1] : task[1][k] = "failed"
    /\ \E k \in DOMAIN task[1] :
          /\ task[1][k] = "done"
          /\ FilePath(IconsFolder(opts[1]), GeneratedFileName(svgDefinitions[1][k]),
                      IconFileType(opts[1])) \in DOMAIN fs
    /\ Len(writes[1]) = 1

\* C15 witness, later stage: the write of the model copy has failed with the
\* icon files, the barrel and the model file in place.
C15_WitnessLateStage ==
    /\ pc[1] = "rejected"
    /\ failedAt[1] \in {"writeModelFileCopy", "writeAdditionalModel"}
    /\ Len(svgDefinitions[1]) >= 2
    /\ ExpectedOutput(1) \subseteq DOMAIN fs

----------------------------------------------------------------------------
\* Two invocations on one output directory

\* Invocation i has had the call op return successfully.
Returned(i, op) == \E k \in 1..Len(trace[i]) : trace[i][k] = << op, "ok" >>

\* The files the names of generatedFileNames (and so the exports of the
\* barrel) of invocation i refer to that are not on disk.
MissingNamedFiles(i) ==
    { p \in {NamedPath(opts[i], generatedFileNames[i][k]) : k \in DOMAIN generatedFileNames[i]} :
        p \notin DOMAIN fs }

\* The files invocation i's own post-compilation stage deletes: the .ts files
\* it resolved.
OwnDeletes(i) ==
    IF Returned(i, "deleteFiles")
    THEN {p \in generatedTypeScriptFilePaths[i] : p.ext = Extension("TS")}
    ELSE {}

\* C16: two invocations running interleaved on the same output directory are
\* not isolated: there is a reachable interleaving (C16_Witness) in which an
\* invocation completes successfully although a file named in its
\* generatedFileNames and in its barrel is not on disk, removed by the other
\* invocation's reset or post-compilation delete. The removal can only come
\* from there: whenever a completed invocation names a file that is not on
\* disk and that its own post-compilation stage did not delete, the other
\* invocation has reset the icons folder or has deleted that file in its
\* post-compilation stage.
C16_MissingOnlyByOther ==
    \A i \in Invs :
        pc[i] = "done" =>
            \A p \in MissingNamedFiles(i) \ OwnDeletes(i) :
                \E j \in Invs \ {i} :
                    \/ Returned(j, "deleteFolder")
                    \/ Returned(j, "deleteFiles") /\ p \in generatedTypeScriptFilePaths[j]

\* C16 witness: invocation 1, run without compile stage, has completed with
\* the success log; its barrel, on disk, exports the name of an icon file it
\* wrote, and that file is gone since invocation 2 reset the icons folder.
C16_Witness ==
    /\ pc[1] = "done"
    /\ ~opts[1].compileSources
    /\ Returned(1, "generationSuccess")
    /\ Returned(2, "deleteFolder")
    /\ \E k \in DOMAIN svgDefinitions[1] :
          LET name == GeneratedFileName(svgDefinitions[1][k])
              p == NamedPath(opts[1], name)
          IN  /\ name \in Range(generatedFileNames[1])
              /\ p \in WrittenPaths(1)
              /\ p \in MissingNamedFiles(1)
              /\ \E b \in BarrelsWritten(1) : name \in Range(b.exports)

\* C16 witness, post-compilation delete: invocation 1 has completed naming its
\* complete-icon-set file, which it wrote and did not delete itself and which
\* invocation 2's deleteFiles removed.
C16_WitnessDeleteFiles ==
    /\ pc[1] = "done"
    /\ opts[1].compileSources
    /\ \E p \in MissingNamedFiles(1) \ OwnDeletes(1) :
          /\ p \in WrittenPaths(1)
          /\ p \notin generatedTypeScriptFilePaths[1]
          /\ p \in generatedTypeScriptFilePaths[2]
          /\ Returned(2, "deleteFiles")

----------------------------------------------------------------------------
\* How often a path is written

\* C17: within one invocation (whose output names are pairwise distinct) no
\* output path is written more than once; in particular, with modelFileName
\* and additionalModelOutputPath set, the model file at the additional path is
\* written exactly once by a completed invocation.
C17_Original ==
    \A i \in Invs :
        /\ \A p \in WrittenPaths(i) : TimesWritten(i, p) = 1
        /\ (pc[i] = "done" /\ Truthy(opts[i].modelFileName)
                /\ Truthy(opts[i].additionalModelOutputPath)) =>
              TimesWritten(i, AdditionalModelPath(opts[i])) = 1

----------------------------------------------------------------------------
\* The SvgDefinitions handed to the later generators

\* The SvgDefinition lists the complete-icon-set and model-file generators of
\* invocation i were called with.
HandedOn(i) ==
    { c.definitions : c \in {completeIconSetContent[i], modelFile[i]} \ {NoContent} }

\* The variable names written into the file of the k-th icon of invocation i.
NamesInIconFile(i, k) ==
    { w.content.variableName :
        w \in {x \in Range(writes[i]) :
                  /\ IsIconFile(x)
                  /\ x.path.name = GeneratedFileName(svgDefinitions[i][k])} }

\* C18: in TSX mode every SvgDefinition handed to the complete-icon-set and
\* model-file generators (both run after the per-icon stage) carries the
\* variable name with its first character upper-cased and every other field
\* as ingested; that name is the one written into the icon's own file;
\* capitalizing it again changes nothing. In SVG mode the SvgDefinitions are,
\* throughout the pipeline, exactly the ingested ones.
C18_CapitalizedNameCarried ==
    \A i \in Invs :
        StageStarted(i) =>
            LET ingested == FilesProcessor(srcFiles)
                defs == svgDefinitions[i]
            IN  /\ \A handed \in HandedOn(i) : handed = defs /\ StageResolved(i)
                /\ Len(defs) = Len(ingested)
                /\ IF opts[i].tsx
                   THEN \A k \in DOMAIN defs :
                           /\ FirstCharUpper(ingested[k].variableName, defs[k].variableName)
                           /\ [defs[k] EXCEPT !.variableName = <<>>]
                                 = [ingested[k] EXCEPT !.variableName = <<>>]
                           /\ NamesInIconFile(i, k) \subseteq {defs[k].variableName}
                           /\ Capitalize(defs[k].variableName) = defs[k].variableName
                           /\ Capitalize(Capitalize(ingested[k].variableName))
                                 = Capitalize(ingested[k].variableName)
                   ELSE /\ defs = ingested
                        /\ \A k \in DOMAIN defs :
                              NamesInIconFile(i, k) \subseteq {ingested[k].variableName}

\* C18 witness: a completed TSX run with complete icon set and model file
\* whose generators received a definition with a name the capitalization
\* changed, the same name as in the icon's file.
C18_Witness ==
    /\ pc[1] = "done"
    /\ opts[1].tsx
    /\ Cardinality(HandedOn(1)) = 1
    /\ completeIconSetContent[1] # NoContent /\ modelFile[1] # NoContent
    /\ \E k \in DOMAIN svgDefinitions[1] :
          /\ svgDefinitions[1][k].variableName # SvgDefinitionOf(k).variableName
          /\ \A handed \in HandedOn(1) :
                NamesInIconFile(1, k) = {handed[k].variableName}

\* C18 witness, SVG mode: a completed run with complete icon set and model
\* file over a definition whose name starts in lower case.
C18_WitnessSvg ==
    /\ pc[1] = "done"
    /\ ~opts[1].tsx
    /\ completeIconSetContent[1] # NoContent /\ modelFile[1] # NoContent
    /\ \E k \in DOMAIN svgDefinitions[1] :
          /\ Capitalize(svgDefinitions[1][k].variableName) # svgDefinitions[1][k].variableName
          /\ NamesInIconFile(1, k) = {SvgDefinitionOf(k).variableName}

----------------------------------------------------------------------------
\* What the post-compilation stage compiles and deletes

\* C19: in the post-compilation stage the files passed to every compile call
\* and the files deleted are the same set, the paths resolved from
\* `${icons}/*.ts` and the barrel file: the .ts files the invocation wrote into
\* the icons folder and its barrel. Every other file is left as it was; in
\* particular the per-icon .tsx files and the model copy at the additional
\* path are neither compiled nor deleted.
C19_CompiledEqualsDeleted ==
    \A i \in Invs :
        Returned(i, "getFilePathsFromRegex") =>
            LET paths == generatedTypeScriptFilePaths[i]
                o == opts[i]
            IN  /\ paths = {p \in WrittenPaths(i) :
                               p.dir = IconsFolder(o) /\ p.ext = Extension("TS")}
                             \cup {BarrelPath(o)}
                /\ \A p \in paths : p.ext # Extension("TSX")
                /\ AdditionalModelPath(o) \notin paths
                /\ \A e \in compiled : e.sources = paths
                /\ \A p \in WrittenPaths(i) \ paths :
                      p \in DOMAIN fs /\ fs[p] = LastWritten(i, p)
                /\ \A p \in DOMAIN fs : p \in WrittenPaths(i) \/ fs[p] = Stale
                /\ IF Returned(i, "deleteFiles")
                   THEN paths \cap DOMAIN fs = {}
                   ELSE \A p \in paths : p \in DOMAIN fs /\ fs[p] = LastWritten(i, p)

\* C19 witness: a completed TSX run with model copy and compile stage: the
\* .ts files and the barrel were compiled and are gone, the .tsx icon files
\* and the copy at the additional path are on disk.
C19_Witness ==
    /\ pc[1] = "done"
    /\ opts[1].tsx /\ opts[1].compileSources
    /\ opts[1].compilationOutput \in ValidOutputs
    /\ Truthy(opts[1].modelFileName) /\ Truthy(opts[1].additionalModelOutputPath)
    /\ Len(svgDefinitions[1]) >= 2
    /\ Returned(1, "deleteFiles")
    /\ ModelPath(opts[1]) \in generatedTypeScriptFilePaths[1]
    /\ ModelPath(opts[1]) \notin DOMAIN fs
    /\ BarrelPath(opts[1]) \notin DOMAIN fs
    /\ IconPaths(1) \subseteq DOMAIN fs
    /\ AdditionalModelPath(opts[1]) \in DOMAIN fs
    /\ \E e \in compiled : e.sources = generatedTypeScriptFilePaths[1]

----------------------------------------------------------------------------
\* Termination

\* How many times invocation i has emitted the success log.
SuccessLogs(i) ==
    Cardinality({k \in 1..Len(trace[i]) : trace[i][k][1] = "generationSuccess"})

\* C20: when every collaborator call eventually settles, every invocation
\* that has been started eventually terminates, with exactly one outcome:
\* resolved, the success log emitted exactly once, or rejected, the success
\* log never emitted; the outcome, once reached, does not change, and no
\* success log is emitted before or after it.
C20_TerminatesWithOneOutcome ==
    /\ \A i \in Invs : (pc[i] # "off") ~> Terminated(i)
    /\ [](\A i \in Invs :
            /\ pc[i] = "done" => SuccessLogs(i) = 1 /\ FirstFailure(trace[i]) = 0
            /\ pc[i] = "rejected" => SuccessLogs(i) = 0 /\ FirstFailure(trace[i]) # 0
            /\ ~Terminated(i) => SuccessLogs(i) = 0)
    /\ [][\A i \in Invs : Terminated(i) => pc'[i] = pc[i]]_vars

\* C20 witness: an invocation has been rejected in the per-icon stage and all
\* its calls have settled, the ones that were pending at the rejection too.
C20_Witness ==
    /\ pc[1] = "rejected"
    /\ failedAt[1] \in PerIconOps
    /\ Len(svgDefinitions[1]) >= 2
    /\ PendingTasks(1) = {}
    /\ \E k \in DOMAIN task[1] : task[1][k] = "done"
    /\ SuccessLogs(1) = 0

\* C20 witness, success: an invocation with every optional stage has resolved
\* with one success log.
C20_WitnessResolved ==
    /\ pc[1] = "done"
    /\ SuccessLogs(1) = 1
    /\ opts[1].tsx /\ opts[1].exportCompleteIconSet /\ opts[1].compileSources
    /\ Truthy(opts[1].modelFileName)
    /\ Len(svgDefinitions[1]) >= 2

====
